---- MODULE Spec2Model ----
(***************************************************************************)
(* Model of src/server.py: the in-memory message history `messages`, the   *)
(* ConnectionManager registry `active_connections`, the /ws session        *)
(* coroutine `websocket_endpoint`, the POST /messages coroutine            *)
(* `post_message`, the GET /messages query `get_messages` and the          *)
(* /ws/heartbeat coroutine `heartbeat`.                                    *)
(*                                                                         *)
(* The server runs on one asyncio event loop: a coroutine runs             *)
(* uninterrupted from one `await` to the next, and other coroutines run    *)
(* only while it is suspended in an `await`.  Each action below is one     *)
(* such uninterrupted stretch.  A send (`await ...send_json`) is started   *)
(* at the end of one stretch and completes, delivering or raising, at the *)
(* start of the next.                                                      *)
(*                                                                         *)
(* Message.timestamp (line 41) is not modelled: no operation reads it.     *)
(* uuid4 (line 38) is modelled as a fresh counter value.                   *)
(***************************************************************************)
EXTENDS Integers, Sequences, FiniteSets, TLC

\* ---------------------------------------------------------------- bounds
NumWS == 3           \* websocket objects that ever connect to /ws
NumPost == 1         \* POST /messages requests
NumReg == 4          \* websocket objects of the registry harness
MaxMsgs == 2         \* messages ever constructed
MaxHist == 12        \* longest pre-filled history of the query harness
MaxLimit == 13       \* largest `limit` of the query harness
MaxNeg == 3          \* the query harness tries limits down to -MaxNeg
NumHB == 1           \* websocket objects that ever connect to /ws/heartbeat
SlowWS == 1          \* the websocket whose peer is the slow receiver
MaxBeats == 1        \* heartbeat tokens sent on one heartbeat connection

\* ------------------------------------------------------ program constants
ReplayCount == 10    \* messages[-10:]

WS == 1..NumWS
RegWS == 1..NumReg
NoLimit == 0 - (MaxNeg + 1)   \* no GET /messages has been made yet
NoCall == [op |-> "none", ws |-> 0]
POSTS == (NumWS + 1)..(NumWS + NumPost)
Tasks == WS \cup POSTS
HB == (NumWS + NumPost + 1)..(NumWS + NumPost + NumHB)
HeartbeatToken == "heartbeat"   \* send_text("heartbeat")

Absent == "<absent>"     \* a key the inbound dict does not have
NoMsg == [id |-> 0, content |-> "", sender |-> ""]
NoData == [content |-> "", sender |-> "", id |-> 0]
NoConn == 0

\* Inbound JSON objects a client may send: one well-formed, one well-formed
\* that also carries an "id" key of the client's choosing (here the id the
\* server gives its first message; id 0 stands for no "id" key), two lacking
\* a key.
Payloads ==
    { [content |-> "x", sender |-> "a", id |-> 0],
      [content |-> "x", sender |-> "a", id |-> 1],
      [content |-> Absent, sender |-> "a", id |-> 0],
      [content |-> "x", sender |-> Absent, id |-> 0] }

VARIABLES
    messages,            \* module-level list `messages`
    active_connections,  \* manager.active_connections
    nextId,              \* the next fresh uuid
    pc,                  \* where each coroutine is suspended
    alive,               \* alive[w]: the transport of websocket w is intact
    data,                \* local `data` / `message_data` of each coroutine
    message,             \* local `message` of each coroutine
    connection,          \* broadcast's loop variable `connection`
    it,                  \* next index of broadcast's list iterator (1-based)
    snap,                \* the list `messages[-10:]` a session replays
    ridx,                \* index into snap of the replay send in progress
    received,            \* what the client of each websocket has been sent
    result,              \* outcome of each POST /messages request
    pstay,               \* history: endpoints registered since the pass began
    pchanged,            \* history: membership changed since the pass began
    liveLog,             \* history: the fan-out deliveries to each websocket
    hbpc,                \* where each heartbeat coroutine is suspended
    hbSent,              \* what the client of each heartbeat websocket was sent
    limit,               \* query harness: the `limit` of the last GET
    response,            \* query harness: what the last GET returned
    apiCall,             \* registry harness: the last call made
    apiErr,              \* registry harness: what the last call raised
    apiPrev,             \* registry harness: the registry before the last call
    apiSeen              \* registry harness: websockets already accepted

vars == << messages, active_connections, nextId, pc, alive, data, message,
           connection, it, snap, ridx, received, result, pstay, pchanged,
           liveLog, hbpc, hbSent,
           limit, response, apiCall, apiErr, apiPrev, apiSeen >>

hbVars == << hbpc, hbSent >>

\* What the /ws and POST /messages handlers never touch.
harnessVars == << limit, response, apiCall, apiErr, apiPrev, apiSeen, hbVars >>

serverVars == << messages, active_connections, nextId, pc, alive, data, message,
                 connection, it, snap, ridx, received, result, pstay, pchanged,
                 liveLog >>

\* ---------------------------------------------------------------- helpers
Range(s) == { s[i] : i \in DOMAIN s }

Min(a, b) == IF a < b THEN a ELSE b

\* Faulty variant of PySliceFrom: seq[:-start], the first entries.
PySliceUpTo(s, start) ==
    LET k == IF start < 0 THEN 0 - start ELSE start
    IN  SubSeq(s, 1, IF k > Len(s) THEN Len(s) ELSE k)

\* Python's seq[start:] with its clamping of negative and oversized indices.
PySliceFrom(s, start) ==
    LET n == Len(s)
        lo == IF start < 0
              THEN (IF start + n < 0 THEN 0 ELSE start + n)
              ELSE (IF start > n THEN n ELSE start)
    IN  SubSeq(s, lo + 1, n)

\* list.remove(x): drops the first occurrence of x.
ListRemove(s, x) ==
    LET k == CHOOSE i \in DOMAIN s : s[i] = x /\ \A j \in 1..(i - 1) : s[j] # x
    IN  SubSeq(s, 1, k - 1) \o SubSeq(s, k + 1, Len(s))

\* How many entries of a client's inbound stream carry message m.
Copies(s, m) == Cardinality({ i \in DOMAIN s : s[i] = m })

\* Faulty variant of WellFormed: only the content key is looked up.
WellFormedContentOnly(d) == d.content # Absent

\* data["content"] / data["sender"] raises KeyError when the key is missing.
WellFormed(d) == d.content # Absent /\ d.sender # Absent

\* Faulty variant of NewMessage: an id in the inbound object is taken over.
NewMessageClientId(d) ==
    [id |-> IF d.id # 0 THEN d.id ELSE nextId,
     content |-> d.content, sender |-> d.sender]

\* Message(content=..., sender=...) with a default-factory id.
NewMessage(d) == [id |-> nextId, content |-> d.content, sender |-> d.sender]

\* Faulty variant of HistoryAppend: the new message is put at the front.
HistoryPrepend(hist, m) == << m >> \o hist

\* Faulty variant of HistoryAppend: the append is put off until after the
\* fan-out, so it has not happened when the sends are made.
HistoryAppendDeferred(hist, m) == hist

\* Faulty variant of HistoryAppend: the history is cut to the newest message.
HistoryKeepNewest(hist, m) == << m >>

\* messages.append(message)
HistoryAppend(hist, m) == Append(hist, m)

\* get_messages(limit): messages[-limit:]
get_messages(n) == PySliceFrom(messages, 0 - n)

\* websocket.send_json succeeds on an open websocket with an intact transport;
\* it raises once the peer is gone or the handler of that websocket has returned
\* (the framework closes the websocket when its handler returns).
CanSend(c) == alive[c]

\* ConnectionManager.connect after accept(): active_connections.append.
connect(conns, w) == Append(conns, w)

\* Faulty variant of disconnect: the entry is never removed.
disconnectKeepsEntry(conns, w) == [conns |-> conns, err |-> "none"]

\* ConnectionManager.disconnect: list.remove raises ValueError when absent.
disconnect(conns, w) ==
    IF w \in Range(conns)
    THEN [conns |-> ListRemove(conns, w), err |-> "none"]
    ELSE [conns |-> conns, err |-> "ValueError"]

\* ------------------------------------------------------------------- Init
Init ==
    /\ messages = << >>
    /\ active_connections = << >>
    /\ nextId = 1
    /\ pc = [t \in Tasks |-> IF t \in WS THEN "new" ELSE "idle"]
    /\ alive = [w \in WS |-> TRUE]
    /\ data = [t \in Tasks |-> NoData]
    /\ message = [t \in Tasks |-> NoMsg]
    /\ connection = [t \in Tasks |-> NoConn]
    /\ it = [t \in Tasks |-> 0]
    /\ snap = [w \in WS |-> << >>]
    /\ ridx = [w \in WS |-> 0]
    /\ received = [w \in WS |-> << >>]
    /\ result = [p \in POSTS |-> "none"]
    /\ pstay = [t \in Tasks |-> {}]
    /\ pchanged = [t \in Tasks |-> FALSE]
    /\ liveLog = [w \in WS |-> << >>]
    /\ hbpc = [h \in HB |-> "new"]
    /\ hbSent = [h \in HB |-> << >>]
    /\ limit = NoLimit
    /\ response = << >>
    /\ apiCall = NoCall
    /\ apiErr = "none"
    /\ apiPrev = << >>
    /\ apiSeen = {}

\* --------------------------------------------------- history bookkeeping
\* A change of registry membership is noted by every fan-out pass in progress.
NoteChange == [t \in Tasks |-> pchanged[t] \/ pc[t] = "bcast"]

\* ------------------------------------------------------- /ws: join, replay
\* Websocket objects are created one per incoming connection; they are
\* numbered in the order in which the connections arrive.
Arrives(w) == pc[w] = "new" /\ \A v \in WS : v < w => pc[v] # "new"

\* websocket_endpoint up to its first suspension after accept(): manager.connect
\* registers the websocket, messages[-10:] is copied, and the first replay send
\* is started (or, with nothing to replay, receive_json is awaited).
Connect(w) ==
    /\ Arrives(w)
    /\ active_connections' = connect(active_connections, w)
    /\ LET tail == PySliceFrom(messages, 0 - ReplayCount)
       IN  /\ snap' = [snap EXCEPT ![w] = tail]
           /\ ridx' = [ridx EXCEPT ![w] = IF tail = << >> THEN 0 ELSE 1]
           /\ pc' = [pc EXCEPT ![w] = IF tail = << >> THEN "recv" ELSE "replay"]
    /\ pchanged' = NoteChange
    /\ UNCHANGED << messages, nextId, alive, data, message, connection, it,
                    received, result, pstay, liveLog, harnessVars >>

\* accept() raises when the peer is already gone; it is outside the try block,
\* so the handler ends without the websocket ever being registered.
AcceptFail(w) ==
    /\ Arrives(w)
    /\ pc' = [pc EXCEPT ![w] = "closed"]
    /\ alive' = [alive EXCEPT ![w] = FALSE]
    /\ UNCHANGED << messages, active_connections, nextId, data, message,
                    connection, it, snap, ridx, received, result, pstay,
                    pchanged, liveLog, harnessVars >>

\* The except branches of websocket_endpoint: manager.disconnect(websocket),
\* after which the handler returns: its locals are gone, the websocket is
\* closed, and what its client had been sent is no longer observed.
Cleanup(w) ==
    /\ active_connections' = disconnect(active_connections, w).conns
    /\ pc' = [pc EXCEPT ![w] = "closed"]
    /\ alive' = [alive EXCEPT ![w] = FALSE]
    /\ received' = [received EXCEPT ![w] = << >>]
    /\ liveLog' = [liveLog EXCEPT ![w] = << >>]
    /\ data' = [data EXCEPT ![w] = NoData]
    /\ message' = [message EXCEPT ![w] = NoMsg]
    /\ connection' = [connection EXCEPT ![w] = NoConn]
    /\ it' = [it EXCEPT ![w] = 0]
    /\ snap' = [snap EXCEPT ![w] = << >>]
    /\ ridx' = [ridx EXCEPT ![w] = 0]
    /\ pstay' = [t \in Tasks |-> IF t = w THEN {} ELSE pstay[t] \ {w}]
    /\ pchanged' = [t \in Tasks |-> IF t = w THEN FALSE ELSE NoteChange[t]]

\* One replay send completes: the message reaches the client and the next send
\* is started, or the send raises and the handler cleans up.
ReplaySend(w) ==
    /\ pc[w] = "replay"
    /\ IF alive[w]
       THEN /\ received' = [received EXCEPT ![w] = Append(@, snap[w][ridx[w]])]
            /\ IF ridx[w] < Len(snap[w])
               THEN /\ ridx' = [ridx EXCEPT ![w] = @ + 1]
                    /\ pc' = pc
               ELSE /\ ridx' = [ridx EXCEPT ![w] = 0]
                    /\ pc' = [pc EXCEPT ![w] = "recv"]
            /\ UNCHANGED << active_connections, data, message, connection, it,
                            snap, pstay, pchanged >>
            /\ UNCHANGED << alive, liveLog >>
       ELSE /\ Cleanup(w)
    /\ UNCHANGED << messages, nextId, result, harnessVars >>

\* ------------------------------------------------------------- fan-out
\* Faulty variant of StartBroadcast: the iteration starts at the second entry.
StartBroadcastSkipFirst(t, m) ==
    /\ message' = [message EXCEPT ![t] = m]
    /\ IF Len(active_connections) < 2
       THEN /\ connection' = [connection EXCEPT ![t] =
                                IF active_connections = << >> THEN NoConn
                                ELSE active_connections[1]]
            /\ it' = [it EXCEPT ![t] = IF active_connections = << >> THEN 0 ELSE 2]
       ELSE /\ connection' = [connection EXCEPT ![t] = active_connections[2]]
            /\ it' = [it EXCEPT ![t] = 3]
    /\ pstay' = [pstay EXCEPT ![t] = Range(active_connections)]
    /\ pchanged' = [pchanged EXCEPT ![t] = FALSE]

\* ConnectionManager.broadcast up to its first suspension: the list iterator
\* yields active_connections[0] and the send to it is started; on an empty list
\* the loop body never runs and broadcast returns at once.
StartBroadcast(t, m) ==
    /\ message' = [message EXCEPT ![t] = m]
    /\ IF active_connections = << >>
       THEN /\ connection' = [connection EXCEPT ![t] = NoConn]
            /\ it' = [it EXCEPT ![t] = 0]
            /\ pstay' = [pstay EXCEPT ![t] = {}]
       ELSE /\ connection' = [connection EXCEPT ![t] = active_connections[1]]
            /\ it' = [it EXCEPT ![t] = 2]
            /\ pstay' = [pstay EXCEPT ![t] = Range(active_connections)]
    /\ pchanged' = [pchanged EXCEPT ![t] = FALSE]

\* ------------------------------------------------------ /ws: receive loop
\* receive_json returns an inbound object d.  A missing key raises KeyError,
\* which `except Exception` turns into cleanup.  Otherwise the Message is
\* built and appended to the history, and the fan-out starts.
Receive(w, d) ==
    /\ pc[w] = "recv"
    /\ alive[w]
    /\ IF WellFormed(d)
       THEN /\ nextId <= MaxMsgs
            /\ data' = [data EXCEPT ![w] = d]
            /\ messages' = HistoryAppend(messages, NewMessage(d))
            /\ nextId' = nextId + 1
            /\ StartBroadcast(w, NewMessage(d))
            /\ pc' = [pc EXCEPT ![w] = "bcast"]
            /\ UNCHANGED << active_connections, snap, ridx, alive, received,
                            liveLog >>
       ELSE /\ Cleanup(w)
            /\ UNCHANGED << messages, nextId >>
    /\ UNCHANGED << result, harnessVars >>

\* Faulty variant of RecvDisconnect: the except branch only logs.
RecvDisconnectLogsOnly(w) ==
    /\ pc[w] = "recv"
    /\ ~alive[w]
    /\ pc' = [pc EXCEPT ![w] = "closed"]
    /\ UNCHANGED << messages, active_connections, nextId, alive, data, message,
                    connection, it, snap, ridx, received, result, pstay,
                    pchanged, liveLog, harnessVars >>

\* receive_json raises WebSocketDisconnect (or a transport error) once the peer
\* is gone: either except branch unregisters the websocket.
RecvDisconnect(w) ==
    /\ pc[w] = "recv"
    /\ ~alive[w]
    /\ Cleanup(w)
    /\ UNCHANGED << messages, nextId, result, harnessVars >>

\* The send in progress of a fan-out pass completes. On success the message
\* reaches the client and the iterator is advanced against the list as it is
\* now; past its end broadcast returns (a session awaits receive_json again,
\* its `data` and `message` dead until the next unit overwrites them;
\* post_message returns the Message and its `data` is dead).  On failure the exception leaves
\* broadcast: a session's except branch unregisters that session; post_message
\* fails.
BroadcastSend(t) ==
    /\ pc[t] = "bcast"
    /\ IF CanSend(connection[t])
       THEN /\ received' = [received EXCEPT ![connection[t]] = Append(@, message[t])]
            /\ liveLog' = [liveLog EXCEPT ![connection[t]] =
                              Append(@, [msg |-> message[t], pub |-> t])]
            /\ IF it[t] <= Len(active_connections)
               THEN /\ connection' = [connection EXCEPT ![t] = active_connections[it[t]]]
                    /\ it' = [it EXCEPT ![t] = @ + 1]
                    /\ UNCHANGED << pc, result, pstay, pchanged, message, data >>
               ELSE /\ connection' = [connection EXCEPT ![t] = NoConn]
                    /\ it' = [it EXCEPT ![t] = 0]
                    /\ pc' = [pc EXCEPT ![t] = IF t \in WS THEN "recv" ELSE "done"]
                    /\ result' = IF t \in POSTS
                                 THEN [result EXCEPT ![t] = "returned"]
                                 ELSE result
                    /\ pstay' = [pstay EXCEPT ![t] = {}]
                    /\ pchanged' = [pchanged EXCEPT ![t] = FALSE]
                    /\ message' = IF t \in WS
                                  THEN [message EXCEPT ![t] = NoMsg]
                                  ELSE message
                    /\ data' = [data EXCEPT ![t] = NoData]
            /\ UNCHANGED << active_connections, snap, ridx, alive >>
       ELSE /\ IF t \in WS
               THEN /\ Cleanup(t)
                    /\ UNCHANGED result
               ELSE /\ pc' = [pc EXCEPT ![t] = "done"]
                    /\ result' = [result EXCEPT ![t] = "raised"]
                    /\ connection' = [connection EXCEPT ![t] = NoConn]
                    /\ it' = [it EXCEPT ![t] = 0]
                    /\ pstay' = [pstay EXCEPT ![t] = {}]
                    /\ pchanged' = [pchanged EXCEPT ![t] = FALSE]
                    /\ data' = [data EXCEPT ![t] = NoData]
                    /\ UNCHANGED << active_connections, message, snap, ridx,
                                    alive, received, liveLog >>
    /\ UNCHANGED << messages, nextId, harnessVars >>

\* ------------------------------------------------------- POST /messages
\* post_message: a missing key raises KeyError before anything is stored;
\* otherwise the Message is built and appended, and the fan-out starts.
PostMessage(p, d) ==
    /\ pc[p] = "idle"
    /\ IF WellFormed(d)
       THEN /\ nextId <= MaxMsgs
            /\ messages' = HistoryAppend(messages, NewMessage(d))
            /\ nextId' = nextId + 1
            /\ StartBroadcast(p, NewMessage(d))
            /\ IF active_connections = << >>
               THEN /\ pc' = [pc EXCEPT ![p] = "done"]
                    /\ result' = [result EXCEPT ![p] = "returned"]
                    /\ data' = [data EXCEPT ![p] = NoData]
               ELSE /\ pc' = [pc EXCEPT ![p] = "bcast"]
                    /\ data' = [data EXCEPT ![p] = d]
                    /\ UNCHANGED result
       ELSE /\ pc' = [pc EXCEPT ![p] = "done"]
            /\ result' = [result EXCEPT ![p] = "KeyError"]
            /\ UNCHANGED << messages, nextId, data, message, connection, it,
                            pstay, pchanged >>
    /\ UNCHANGED << active_connections, alive, snap, ridx, received, liveLog,
                    harnessVars >>

\* ------------------------------------------------------------ environment
\* The peer of websocket w goes away (close frame, reset, network fault).
ClientDrop(w) ==
    /\ alive[w]
    /\ pc[w] \notin {"new", "closed"}
    /\ alive' = [alive EXCEPT ![w] = FALSE]
    /\ UNCHANGED << messages, active_connections, nextId, pc, data, message,
                    connection, it, snap, ridx, received, result, pstay,
                    pchanged, liveLog, harnessVars >>

Next ==
    \/ \E w \in WS : Connect(w)
    \/ \E w \in WS : AcceptFail(w)
    \/ \E w \in WS : ReplaySend(w)
    \/ \E w \in WS, d \in Payloads : Receive(w, d)
    \/ \E w \in WS : RecvDisconnect(w)
    \/ \E t \in Tasks : BroadcastSend(t)
    \/ \E p \in POSTS, d \in Payloads : PostMessage(p, d)
    \/ \E w \in WS : ClientDrop(w)

Spec == Init /\ [][Next]_vars

\* =================================================== GET /messages harness
\* A history of n messages, as n publishes with nobody connected leave it.
Hist(n) == [i \in 1..n |-> [id |-> i, content |-> "x", sender |-> "a"]]

InitTail ==
    /\ \E n \in 0..MaxHist : messages = Hist(n) /\ nextId = n + 1
    /\ active_connections = << >>
    /\ pc = [t \in Tasks |-> IF t \in WS THEN "new" ELSE "idle"]
    /\ alive = [w \in WS |-> TRUE]
    /\ data = [t \in Tasks |-> NoData]
    /\ message = [t \in Tasks |-> NoMsg]
    /\ connection = [t \in Tasks |-> NoConn]
    /\ it = [t \in Tasks |-> 0]
    /\ snap = [w \in WS |-> << >>]
    /\ ridx = [w \in WS |-> 0]
    /\ received = [w \in WS |-> << >>]
    /\ result = [p \in POSTS |-> "none"]
    /\ pstay = [t \in Tasks |-> {}]
    /\ pchanged = [t \in Tasks |-> FALSE]
    /\ liveLog = [w \in WS |-> << >>]
    /\ hbpc = [h \in HB |-> "new"]
    /\ hbSent = [h \in HB |-> << >>]
    /\ limit = NoLimit
    /\ response = << >>
    /\ apiCall = NoCall
    /\ apiErr = "none"
    /\ apiPrev = << >>
    /\ apiSeen = {}

\* GET /messages?limit=n: the handler has no await, it runs in one stretch.
GetMessages(n) ==
    /\ limit' = n
    /\ response' = get_messages(n)
    /\ UNCHANGED << serverVars, hbVars, apiCall, apiErr, apiPrev, apiSeen >>

NextTail == \E n \in (0 - MaxNeg)..MaxLimit : GetMessages(n)

SpecTail == InitTail /\ [][NextTail]_vars

\* ======================================================= registry harness
\* ConnectionManager driven directly, one call at a time.  accept() succeeds
\* once per websocket object, so a websocket is handed to connect at most once.
RegConnect(w) ==
    /\ w \notin apiSeen
    /\ active_connections' = connect(active_connections, w)
    /\ apiSeen' = apiSeen \cup {w}
    /\ apiCall' = [op |-> "connect", ws |-> w]
    /\ apiErr' = "none"
    /\ apiPrev' = active_connections
    /\ UNCHANGED << messages, nextId, pc, alive, data, message, connection, it,
                    snap, ridx, received, result, pstay, pchanged, liveLog,
                    hbVars, limit, response >>

RegDisconnect(w) ==
    /\ active_connections' = disconnect(active_connections, w).conns
    /\ apiErr' = disconnect(active_connections, w).err
    /\ apiCall' = [op |-> "disconnect", ws |-> w]
    /\ apiPrev' = active_connections
    /\ UNCHANGED << messages, nextId, pc, alive, data, message, connection, it,
                    snap, ridx, received, result, pstay, pchanged, liveLog,
                    hbVars, limit, response, apiSeen >>

NextReg ==
    \/ \E w \in RegWS : RegConnect(w)
    \/ \E w \in RegWS : RegDisconnect(w)

SpecReg == Init /\ [][NextReg]_vars

\* ========================================================= /ws/heartbeat
\* Faulty variant of HeartbeatAccept: the websocket goes through
\* manager.connect and so into the registry.
HeartbeatAcceptRegisters(h) ==
    /\ hbpc[h] = "new"
    /\ hbpc' = [hbpc EXCEPT ![h] = "send"]
    /\ active_connections' = connect(active_connections, h)
    /\ UNCHANGED << messages, nextId, pc, alive, data, message, connection, it,
                    snap, ridx, received, result, pstay, pchanged, liveLog,
                    hbSent, limit, response, apiCall, apiErr, apiPrev, apiSeen >>

\* heartbeat up to its first suspension after accept(): the first send_text is
\* started.  The websocket is not handed to the ConnectionManager.
HeartbeatAccept(h) ==
    /\ hbpc[h] = "new"
    /\ hbpc' = [hbpc EXCEPT ![h] = "send"]
    /\ UNCHANGED << serverVars, hbSent, limit, response, apiCall, apiErr,
                    apiPrev, apiSeen >>

\* send_text("heartbeat") completes and asyncio.sleep(5) is awaited.
HeartbeatSend(h) ==
    /\ hbpc[h] = "send"
    /\ Len(hbSent[h]) < MaxBeats
    /\ hbSent' = [hbSent EXCEPT ![h] = Append(@, HeartbeatToken)]
    /\ hbpc' = [hbpc EXCEPT ![h] = "sleep"]
    /\ UNCHANGED << serverVars, limit, response, apiCall, apiErr, apiPrev,
                    apiSeen >>

\* The sleep is over and the next send_text is started.
HeartbeatWake(h) ==
    /\ hbpc[h] = "sleep"
    /\ hbpc' = [hbpc EXCEPT ![h] = "send"]
    /\ UNCHANGED << serverVars, hbSent, limit, response, apiCall, apiErr,
                    apiPrev, apiSeen >>

\* The peer is gone: send_text raises WebSocketDisconnect, the except branch
\* logs it and the handler returns.
HeartbeatDisconnect(h) ==
    /\ hbpc[h] = "send"
    /\ hbpc' = [hbpc EXCEPT ![h] = "closed"]
    /\ hbSent' = [hbSent EXCEPT ![h] = << >>]
    /\ UNCHANGED << serverVars, limit, response, apiCall, apiErr, apiPrev,
                    apiSeen >>

HeartbeatStep(h) ==
    \/ HeartbeatAccept(h)
    \/ HeartbeatSend(h)
    \/ HeartbeatWake(h)
    \/ HeartbeatDisconnect(h)

NextHB ==
    \/ Next
    \/ \E h \in HB : HeartbeatAccept(h)
    \/ \E h \in HB : HeartbeatSend(h)
    \/ \E h \in HB : HeartbeatWake(h)
    \/ \E h \in HB : HeartbeatDisconnect(h)

SpecHB == Init /\ [][NextHB]_vars

\* ========================================================= replay harness
\* The server after n publishes made with nobody connected.
InitReplay ==
    /\ \E n \in 0..MaxHist : messages = Hist(n) /\ nextId = n + 1
    /\ active_connections = << >>
    /\ pc = [t \in Tasks |-> IF t \in WS THEN "new" ELSE "idle"]
    /\ alive = [w \in WS |-> TRUE]
    /\ data = [t \in Tasks |-> NoData]
    /\ message = [t \in Tasks |-> NoMsg]
    /\ connection = [t \in Tasks |-> NoConn]
    /\ it = [t \in Tasks |-> 0]
    /\ snap = [w \in WS |-> << >>]
    /\ ridx = [w \in WS |-> 0]
    /\ received = [w \in WS |-> << >>]
    /\ result = [p \in POSTS |-> "none"]
    /\ pstay = [t \in Tasks |-> {}]
    /\ pchanged = [t \in Tasks |-> FALSE]
    /\ liveLog = [w \in WS |-> << >>]
    /\ hbpc = [h \in HB |-> "new"]
    /\ hbSent = [h \in HB |-> << >>]
    /\ limit = NoLimit
    /\ response = << >>
    /\ apiCall = NoCall
    /\ apiErr = "none"
    /\ apiPrev = << >>
    /\ apiSeen = {}

SpecReplay == InitReplay /\ [][Next]_vars

\* =============================================================== fairness
\* A coroutine whose awaited send or receive has completed or failed is
\* resumed.
Resume ==
    \/ \E t \in Tasks : BroadcastSend(t)
    \/ \E w \in WS : ReplaySend(w)
    \/ \E w \in WS : RecvDisconnect(w)

\* The event loop does not idle while a coroutine is ready to be resumed.
SpecFair == Spec /\ WF_vars(Resume)

\* The same, except that the peer of websocket SlowWS reads so slowly that a
\* fan-out send to it need never complete.
SpecSlow ==
    /\ Spec
    /\ \A t \in Tasks : WF_vars(BroadcastSend(t) /\ connection[t] # SlowWS)
    /\ \A w \in WS : WF_vars(ReplaySend(w)) /\ WF_vars(RecvDisconnect(w))

\* ================================================================= claims
Registered(w) == w \in Range(active_connections)

\* The step is the completion of a send of t's fan-out pass that raised.
SendFails(t) == BroadcastSend(t) /\ ~CanSend(connection[t])

\* The step is the completion of the last send of t's fan-out pass, after which
\* broadcast returned normally.
PassReturns(t) ==
    BroadcastSend(t) /\ CanSend(connection[t]) /\ pc'[t] \in {"recv", "done"}

\* C1: when a send of a fan-out pass fails, the pass goes on to the endpoints
\* that remain (the next one in the registry becomes the one being sent to),
\* and once none remains the publish completes normally: the session awaits
\* its next inbound unit, POST /messages returns the Message.
C1_FanoutIsolation ==
    [][ \A t \in Tasks :
          SendFails(t) =>
            IF it[t] <= Len(active_connections)
            THEN /\ pc'[t] = "bcast"
                 /\ connection'[t] = active_connections[it[t]]
                 /\ message'[t] = message[t]
            ELSE /\ t \in WS => pc'[t] = "recv"
                 /\ t \in POSTS => result'[t] = "returned" ]_vars

\* C2: while a session is still replaying, everything its client has been sent
\* is a message of its replay slice; nothing published after its join gets in
\* ahead of a replay message.
C2_ReplayBeforeLive ==
    \A w \in WS :
        pc[w] = "replay" =>
            \A i \in DOMAIN received[w] : received[w][i] \in Range(snap[w])

\* C3: when a fan-out pass has run to its end, every endpoint that was
\* registered when it began and has stayed registered throughout has been sent
\* the message exactly once.
C3_SnapshotConsistency ==
    [][ \A t \in Tasks :
          PassReturns(t) =>
            \A e \in pstay[t] : Copies(received'[e], message[t]) = 1 ]_vars

\* C4: ConnectionManager.disconnect on an endpoint that is not in the registry
\* raises nothing and leaves the registry as it was.
C4_UnregisterIdempotent ==
    apiCall.op = "disconnect" /\ apiCall.ws \notin Range(apiPrev) =>
        apiErr = "none" /\ active_connections = apiPrev

\* The last min(n, size) entries, oldest first; none when n <= 0.
BoundedTail(hist, n) ==
    IF n <= 0 THEN << >>
    ELSE SubSeq(hist, Len(hist) - Min(n, Len(hist)) + 1, Len(hist))

\* C5: GET /messages?limit=n returns the most recent min(n, size) messages,
\* oldest first, and the empty sequence when n <= 0.
C5_BoundedTail ==
    limit # NoLimit => response = BoundedTail(messages, limit)

\* C6: the history holds every constructed message once, in the order of the
\* append steps; a query with a bound of at least the number of publishes
\* returns all of them in that order; and right after a publish, with no other
\* publish since, a query with bound 1 returns that publish's Message.
C6_HistoryOrder ==
    /\ Len(messages) = nextId - 1
    /\ \A i \in DOMAIN messages : messages[i].id = i /\ WellFormed(messages[i])
    /\ \A n \in Len(messages)..(Len(messages) + 2) : get_messages(n) = messages
    /\ \A t \in Tasks :
          message[t] # NoMsg =>
            /\ messages[message[t].id] = message[t]
            /\ data[t] # NoData =>
                   /\ message[t].content = data[t].content
                   /\ message[t].sender = data[t].sender
            /\ message[t].id = nextId - 1 => get_messages(1) = << message[t] >>

W6_HistoryOrder ==
    /\ Len(messages) = MaxMsgs
    /\ \E p \in POSTS : result[p] = "returned" /\ message[p].id = 1
    /\ \E w \in WS : pc[w] = "bcast" /\ message[w].id = MaxMsgs

\* C7: when a /ws session's fan-out pass returns and the registry membership
\* has not changed since the publish, every registered session, the publisher
\* included, has been sent exactly one message with the new id, and it carries
\* the content and sender of the inbound unit.
C7_FanoutWithEcho ==
    [][ \A w \in WS :
          (PassReturns(w) /\ ~pchanged[w]) =>
            /\ Registered(w)
            /\ \A e \in Range(active_connections) :
                 /\ Cardinality({ i \in DOMAIN received'[e] :
                                    received'[e][i].id = message[w].id }) = 1
                 /\ \A i \in DOMAIN received'[e] :
                      received'[e][i].id = message[w].id =>
                        /\ received'[e][i].content = data[w].content
                        /\ received'[e][i].sender = data[w].sender ]_vars

W7_FanoutWithEcho ==
    \E w, v \in WS :
        /\ w # v
        /\ pc[w] = "recv" /\ pc[v] = "recv"
        /\ \A p \in POSTS : pc[p] = "idle"
        /\ \A u \in WS \ {w, v} : pc[u] = "new"
        /\ snap[w] = << >> /\ snap[v] = << >>
        /\ Len(messages) = 1
        /\ received[w] = messages
        /\ received[v] = messages

\* C8: a failed send to another session's endpoint, in a fan-out that a
\* session with an intact connection started, neither closes nor unregisters
\* that publishing session.
C8_FailureAttribution ==
    [][ \A w \in WS :
          (SendFails(w) /\ connection[w] # w /\ alive[w]) =>
            pc'[w] # "closed" /\ Registered(w)' ]_vars

\* C9: an endpoint is in active_connections exactly while its session is
\* between its join and its cleanup, and no endpoint is in it twice.
C9_RegistryMembership ==
    /\ \A w \in WS : Registered(w) <=> pc[w] \in {"replay", "recv", "bcast"}
    /\ \A i, j \in DOMAIN active_connections :
          active_connections[i] = active_connections[j] => i = j

W9_RegistryMembership ==
    \E w, v \in WS :
        /\ pc[w] = "closed" /\ ~Registered(w)
        /\ pc[v] = "recv" /\ Registered(v) /\ received[v] # << >>
        /\ w < v

\* C10: an inbound unit that lacks content or sender leaves the session active:
\* it stays registered and awaits its next inbound unit.
C10_MalformedKeepsSession ==
    [][ \A w \in WS, d \in Payloads :
          (Receive(w, d) /\ ~WellFormed(d)) =>
            pc'[w] = "recv" /\ Registered(w)' ]_vars


\* d has no "content" key or no "sender" key.
Lacks(d) == d.content = Absent \/ d.sender = Absent

\* C11: an inbound unit that lacks the content or the sender field is never
\* published: the step that reads it leaves the history as it was and
\* delivers nothing to any other endpoint.
C11_MalformedNotPublished ==
    [][\A w \in WS : \A d \in Payloads :
          (Receive(w, d) /\ Lacks(d)) =>
              /\ messages' = messages
              /\ nextId' = nextId
              /\ pc'[w] # "bcast"
              /\ \A v \in WS \ {w} : received'[v] = received[v]]_vars

\* A session is about to read a malformed unit while another registered
\* endpoint holds a message and the history is not empty.
W11_MalformedNotPublished ==
    \E w \in WS : \E v \in WS \ {w} : \E d \in Payloads :
        /\ Lacks(d)
        /\ ENABLED Receive(w, d)
        /\ Registered(v)
        /\ received[v] # << >>
        /\ messages # << >>

\* Endpoint e is waiting behind a fan-out send to the slow websocket: a pass is
\* suspended on that send, e was registered when the pass began, is still
\* registered and connected, and has not been handed the pass's message.
Blocked(e) ==
    \E t \in Tasks :
        /\ pc[t] = "bcast"
        /\ connection[t] = SlowWS
        /\ e \in pstay[t]
        /\ Registered(e)
        /\ alive[e]
        /\ Copies(received[e], message[t]) = 0

\* C12: a send to a slow endpoint that never completes cannot keep a message
\* from the other registered endpoints for ever: an endpoint waiting behind
\* such a send eventually stops waiting.
C12_SlowReceiverNoBlock ==
    \A e \in WS \ {SlowWS} : Blocked(e) ~> ~Blocked(e)

\* C13: the heartbeat endpoint is isolated: its steps change neither the
\* registry, the history nor what any message endpoint has received, its
\* websocket is never in the registry, it is sent heartbeat tokens only, and
\* what a message endpoint is sent is always a message of the history.
C13_HeartbeatIsolation ==
    [][/\ \A h \in HB : HeartbeatStep(h) =>
              /\ active_connections' = active_connections
              /\ messages' = messages
              /\ received' = received
       /\ \A h \in HB :
              /\ h \notin Range(active_connections')
              /\ \A i \in DOMAIN hbSent'[h] : hbSent'[h][i] = HeartbeatToken
       /\ \A w \in WS : \A i \in DOMAIN received'[w] :
              received'[w][i] \in Range(messages')]_vars

\* A heartbeat client has been sent a token and the loop has come round to
\* its next send, while a message endpoint is registered and a message has
\* been published and delivered.
W13_HeartbeatIsolation ==
    \E h \in HB : \E w \in WS :
        /\ hbpc[h] = "send"
        /\ Len(hbSent[h]) = MaxBeats
        /\ Registered(w)
        /\ received[w] # << >>
        /\ messages # << >>

\* C14: message identifiers are assigned by the system and differ between any
\* two messages of the history, whatever id the inbound object carried.
C14_UniqueIds ==
    \A i \in DOMAIN messages : \A j \in DOMAIN messages :
        i # j => messages[i].id # messages[j].id

\* A publish whose inbound object carried the id of an earlier message is in
\* progress, and its message has a different id.
W14_UniqueIds ==
    \E t \in Tasks :
        /\ pc[t] = "bcast"
        /\ data[t].id = 1
        /\ message[t].id # 1
        /\ Len(messages) = 2
        /\ messages[1].id = 1
        /\ messages[2] = message[t]

\* C15: a message is in the history before its fan-out begins and stays there
\* when the fan-out fails: every message being fanned out, every message
\* delivered live and every message whose POST failed is in the history.
C15_HistoryBeforeFanout ==
    /\ \A t \in Tasks : pc[t] = "bcast" => message[t] \in Range(messages)
    /\ \A w \in WS : \A i \in DOMAIN liveLog[w] :
           liveLog[w][i].msg \in Range(messages)
    /\ \A p \in POSTS : result[p] = "raised" => message[p] \in Range(messages)

\* A POST failed in its fan-out and its message is in the history.
W15_HistoryBeforeFanout ==
    \E p \in POSTS :
        /\ result[p] = "raised"
        /\ message[p] \in Range(messages)

Replayed(w) == Len(received[w]) - Len(liveLog[w])

\* C17: on entering the session the endpoint is registered and the replay is
\* fixed as the last min(10, size) messages of the history, oldest first; each
\* replay send hands over the next of them, the session goes on to read
\* inbound units exactly when the last one is sent, and it reads none before.
C17_ReplayContent ==
    [][\A w \in WS :
          /\ Connect(w) =>
                 /\ Registered(w)'
                 /\ snap'[w] = BoundedTail(messages, ReplayCount)
                 /\ Len(snap'[w]) = Min(ReplayCount, Len(messages))
                 /\ (pc'[w] = "recv") <=> (messages = << >>)
          /\ (pc[w] = "replay" /\ pc'[w] # "closed") => snap'[w] = snap[w]
          /\ (ReplaySend(w) /\ alive[w]) =>
                 /\ Replayed(w) < Len(snap[w])
                 /\ received'[w] = Append(received[w], snap[w][Replayed(w) + 1])
                 /\ (pc'[w] = "recv") <=> (Replayed(w) + 1 = Len(snap[w]))
          /\ \A d \in Payloads : Receive(w, d) =>
                 Replayed(w) = Len(snap[w])]_vars

\* An endpoint that joined on a history of more than ten messages has been
\* sent its whole replay of ten and awaits inbound units.
W17_ReplayContent ==
    \E w \in WS :
        /\ pc[w] = "recv"
        /\ Len(messages) > ReplayCount
        /\ Len(snap[w]) = ReplayCount
        /\ Replayed(w) = ReplayCount
        /\ received[w][1] = messages[Len(messages) - ReplayCount + 1]

\* C18: the history is append-only: a step leaves it as it was or adds one
\* message at its end.
C18_AppendOnly ==
    [][\/ messages' = messages
       \/ /\ Len(messages') = Len(messages) + 1
          /\ SubSeq(messages', 1, Len(messages)) = messages]_vars

\* The history holds as many messages as can be published, after deliveries
\* and a closed session.
W18_AppendOnly ==
    /\ Len(messages) = MaxMsgs
    /\ \E w \in WS : pc[w] = "closed"
    /\ \E v \in WS : Len(received[v]) >= MaxMsgs

\* C19: no endpoint is handed the same message twice, by replay and by a
\* fan-out in progress when it joined.
C19_NoDuplicateDelivery ==
    \A w \in WS : \A i \in DOMAIN received[w] : \A j \in DOMAIN received[w] :
        i # j => received[w][i].id # received[w][j].id

\* The position of message m in the history.
Pos(m) == CHOOSE k \in DOMAIN messages : messages[k] = m

\* C20: two messages of one publishing session reach a receiver live in the
\* order in which that session published them (their order in the history).
C20_PublisherFifo ==
    \A e \in WS : \A i \in DOMAIN liveLog[e] : \A j \in DOMAIN liveLog[e] :
        (i < j /\ liveLog[e][i].pub = liveLog[e][j].pub
               /\ liveLog[e][i].pub \in WS) =>
            Pos(liveLog[e][i].msg) < Pos(liveLog[e][j].msg)

\* A receiver other than the publisher holds two live messages of one
\* publishing session.
W20_PublisherFifo ==
    \E e \in WS : \E w \in WS \ {e} :
        \E i \in DOMAIN liveLog[e] : \E j \in DOMAIN liveLog[e] :
            /\ i < j
            /\ liveLog[e][i].pub = w
            /\ liveLog[e][j].pub = w

====
